---- MODULE Spec2Model ----
(***************************************************************************)
(* DirShell terminal: the escape-sequence interpreter of TerminalWidget,   *)
(* the directory-report extractor of TerminalTab and the navigation state  *)
(* it drives, modelled from src/terminal.py.                               *)
(*                                                                         *)
(* A character is a one-token string.  The QTextDocument is the flat       *)
(* sequence of its characters in which the token PS is the block separator *)
(* (Qt's U+2029); a QTextCursor is a position 0..Len(doc) in it.  The      *)
(* ScreenBuffer of the specification (lines, cursor line, cursor column)   *)
(* is read off that sequence by Lines, CursorLine and CursorCol.           *)
(***************************************************************************)
EXTENDS Integers, Sequences, FiniteSets, TLC

VARIABLES
    doc,                \* the QTextDocument of the TerminalWidget
    pos,                \* position of TerminalWidget._cursor
    raised,             \* handle_output left by an exception
    prevDoc,            \* the document before the last handle_output call
    prevPos,            \* the cursor before the last handle_output call
    lastText,           \* the fragment of the last handle_output call
    lastI,              \* the loop index i when that call left its loop
    consumed,           \* every fragment delivered so far, concatenated
    nfrag,              \* number of fragments delivered so far
    events,             \* the directory_changed emissions, in order
    history,            \* TerminalTab.history
    history_index,      \* TerminalTab.history_index (0-based, -1 when empty)
    current_directory,  \* TerminalTab.current_directory
    running,            \* TerminalReader.running
    reader_pc,          \* where the reader thread is in TerminalReader.run
    data,               \* the local data of TerminalReader.run
    posted,             \* the output emissions queued for the tab's thread
    master_open,        \* the descriptor tab.master is open
    produced,           \* every fragment os.read returned, in order
    delivered,          \* every fragment handle_output was called with, in order
    child,              \* tab.process: "alive", "zombie", "reaped" or "gone"
    sd_pc,              \* where _shutdown_tab is
    calls,              \* number of _shutdown_tab calls so far
    now,                \* the time, in milliseconds
    started,            \* the time of the last _shutdown_tab call
    deadline,           \* the time at which the pending wait times out
    signals,            \* the signals sent so far: <<call, target, signal>>
    timed_out,          \* process.wait raised TimeoutExpired in this call
    escaped,            \* an exception left _shutdown_tab
    phases,             \* what the last _shutdown_tab call has done, in order
    input_buffer,       \* TerminalWidget._input_buffer
    command_history,    \* TerminalTab.command_history
    emitted,            \* the command_executed emissions, in order
    written,            \* the bytes of the last os.write of the last input
                        \* operation, empty when it wrote nothing
    last_op,            \* the last input operation: [op, arg, sel]
    prev_buffer,        \* _input_buffer before the last input operation
    prev_emitted,       \* the emissions before the last input operation
    scanned,            \* the fragments _extract_directories was called with
    extracted,          \* what each of these calls returned
    cd_queue            \* the cd commands written to the shell and not yet
                        \* answered by its report: [dir, origin]

\* the terminal and the tab's navigation state
tvars == <<doc, pos, raised, prevDoc, prevPos, lastText, lastI, consumed, nfrag,
           events, history, history_index, current_directory>>

\* the reader thread and its hand-off to the tab
rvars == <<running, reader_pc, data, posted, master_open, produced, delivered>>

\* the child process and _shutdown_tab
svars == <<child, sd_pc, calls, now, started, deadline, signals, timed_out, escaped,
           phases>>

\* the command recorder
kvars == <<input_buffer, command_history, emitted, written, last_op, prev_buffer,
           prev_emitted>>

\* the calls of the directory-report extractor
xvars == <<scanned, extracted>>

\* the shell's pending directory changes
nvars == <<cd_queue>>

vars == <<tvars, rvars, svars, kvars, xvars, nvars>>

----------------------------------------------------------------------------
(* Characters *)

CR  == "CR"
LF  == "LF"
BS  == "BS"
DEL == "DEL"
BEL == "BEL"
ESC == "ESC"
SP  == " "
PS  == "PS"

Digits == <<"0", "1", "2", "3", "4", "5", "6", "7", "8", "9">>

DigitSet == {Digits[k] : k \in 1..Len(Digits)}

Letters == {"a", "b", "c", "e", "h", "l", "o", "t", "m", "p", "x", "Z",
            "K", "J", "H", "f", "C", "u", "r", "n", "D", "i"}

\* str.isalpha() on one character
IsAlpha(c) == c \in Letters

\* text[i] with Python's 0-based index
At(text, i) == text[i + 1]

\* text[a:b] with Python's 0-based half-open slice, 0 <= a <= b <= len(text)
Slice(text, a, b) == SubSeq(text, a + 1, b)

Min(a, b) == IF a < b THEN a ELSE b

Max(a, b) == IF a > b THEN a ELSE b

----------------------------------------------------------------------------
(* QTextDocument / QTextCursor primitives used by handle_output *)

\* QTextCursor.MoveOperation.StartOfBlock
StartOfBlock(d, p) ==
    IF \E k \in 1..p : d[k] = PS
    THEN CHOOSE k \in 1..p : d[k] = PS /\ \A j \in (k + 1)..p : d[j] # PS
    ELSE 0

\* QTextCursor.MoveOperation.EndOfBlock
EndOfBlock(d, p) ==
    IF \E k \in (p + 1)..Len(d) : d[k] = PS
    THEN (CHOOSE k \in (p + 1)..Len(d) : d[k] = PS /\ \A j \in (p + 1)..(k - 1) : d[j] # PS) - 1
    ELSE Len(d)

\* removeSelectedText() of the selection between positions a and b
RemoveRange(d, a, b) == SubSeq(d, 1, Min(a, b)) \o SubSeq(d, Max(a, b) + 1, Len(d))

\* insertText(c) / insertBlock() at position p
InsertAt(d, p, c) == SubSeq(d, 1, p) \o <<c>> \o SubSeq(d, p + 1, Len(d))

\* QTextDocument.blockCount()
BlockCount(d) == 1 + Cardinality({k \in 1..Len(d) : d[k] = PS})

\* position of QTextDocument.findBlockByNumber(n), 0 <= n < blockCount
BlockPosition(d, n) ==
    IF n = 0 THEN 0
    ELSE CHOOSE k \in 1..Len(d) :
            d[k] = PS /\ Cardinality({j \in 1..k : d[j] = PS}) = n

\* AppendBlocks with the loop run while blockCount() <= row: one block too many
RECURSIVE AppendBlocksOneMore(_, _)
AppendBlocksOneMore(d, n) == IF n < 0 THEN d ELSE AppendBlocksOneMore(d \o <<PS>>, n - 1)

\* the document with n empty blocks appended at its end
RECURSIVE AppendBlocks(_, _)
AppendBlocks(d, n) == IF n <= 0 THEN d ELSE AppendBlocks(d \o <<PS>>, n - 1)

----------------------------------------------------------------------------
(* The ScreenBuffer view of the document *)

CursorLine(d, p) == Cardinality({k \in 1..p : d[k] = PS})

CursorCol(d, p) == p - StartOfBlock(d, p)

\* the n-th line (0-based) of the document
LineOf(d, n) ==
    LET s == BlockPosition(d, n)
    IN  SubSeq(d, s + 1, EndOfBlock(d, s))

Lines(d) == [n \in 1..BlockCount(d) |-> LineOf(d, n - 1)]

----------------------------------------------------------------------------
(* int() of a CSI parameter, and the C int of QTextCursor.movePosition *)

\* largest value of the C int that movePosition takes as its count
IntMax == 2147483647

DigitVal(c) == (CHOOSE k \in 1..Len(Digits) : Digits[k] = c) - 1

\* str.strip() over the blank of the alphabet
RECURSIVE StripLeft(_)
StripLeft(s) == IF s # <<>> /\ Head(s) = SP THEN StripLeft(Tail(s)) ELSE s

RECURSIVE StripRight(_)
StripRight(s) ==
    IF s # <<>> /\ s[Len(s)] = SP THEN StripRight(SubSeq(s, 1, Len(s) - 1)) ELSE s

Strip(s) == StripRight(StripLeft(s))

\* the value of a digit string, saturated at IntMax (Python's int is unbounded)
RECURSIVE NumValue(_, _)
NumValue(ds, acc) ==
    IF ds = <<>> THEN acc
    ELSE LET d == DigitVal(Head(ds))
         IN  NumValue(Tail(ds),
                      IF acc > (IntMax - d) \div 10 THEN IntMax ELSE 10 * acc + d)

\* the digit string denotes a value v with v - 1 > IntMax
ExceedsCInt(ds) ==
    LET front == NumValue(SubSeq(ds, 1, Len(ds) - 1), 0)
        last  == DigitVal(ds[Len(ds)])
    IN  \/ front > IntMax \div 10
        \/ front = IntMax \div 10 /\ last >= (IntMax % 10) + 2

\* int() of the digits body with sign neg
ParseDigits(body, neg) ==
    IF body # <<>> /\ \A k \in 1..Len(body) : body[k] \in DigitSet
    THEN [ok   |-> TRUE,
          val  |-> IF neg THEN 0 - NumValue(body, 0) ELSE NumValue(body, 0),
          wide |-> ~neg /\ ExceedsCInt(body)]
    ELSE [ok |-> FALSE, val |-> 0, wide |-> FALSE]

ParseStripped(t) ==
    IF t # <<>> /\ Head(t) \in {"+", "-"}
    THEN ParseDigits(Tail(t), Head(t) = "-")
    ELSE ParseDigits(t, FALSE)

\* int(s): ok is FALSE where Python raises ValueError
ParseInt(s) == ParseStripped(Strip(s))

\* params.split(";")
\* the parts when there are exactly two, <<>> otherwise
SplitAt(params, semis) ==
    IF Cardinality(semis) = 1
    THEN <<SubSeq(params, 1, (CHOOSE j \in semis : TRUE) - 1),
           SubSeq(params, (CHOOSE j \in semis : TRUE) + 1, Len(params))>>
    ELSE <<>>

SplitSemi(params) == SplitAt(params, {k \in 1..Len(params) : params[k] = ";"})

----------------------------------------------------------------------------
(* TerminalWidget.handle_output: one transition per character class.  The  *)
(* loop state is [doc, pos, i, brk, raised]: the document, the local       *)
(* cursor, the index into the fragment, whether the loop was left by       *)
(* break, and whether the call was left by an exception.                   *)

\* "\r"
CarriageReturn(s) ==
    [s EXCEPT !.pos = StartOfBlock(s.doc, s.pos), !.i = s.i + 1]

\* LineFeed without the move to the end of the line: the block is inserted at
\* the cursor and splits the line
LineFeedAtCursor(s) ==
    [s EXCEPT !.doc = InsertAt(s.doc, s.pos, PS), !.pos = s.pos + 1, !.i = s.i + 1]

\* LineFeed with the block inserted at the end of the document
LineFeedAtEnd(s) ==
    [s EXCEPT !.doc = Append(s.doc, PS), !.pos = Len(s.doc) + 1, !.i = s.i + 1]

\* "\n"
LineFeed(s) ==
    LET e == EndOfBlock(s.doc, s.pos)
    IN  [s EXCEPT !.doc = InsertAt(s.doc, e, PS), !.pos = e + 1, !.i = s.i + 1]

\* the guard of the deletion in the "\b" / DEL branch
CanDeletePrevious(d, p) == p > 0

\* "\b" or DEL, with the "\b \b" idiom consumed as one unit
Backspace(s, text) ==
    LET del == CanDeletePrevious(s.doc, s.pos)
        d2  == IF del THEN RemoveRange(s.doc, s.pos - 1, s.pos) ELSE s.doc
        p2  == IF del THEN s.pos - 1 ELSE s.pos
        idiom == /\ s.i + 2 < Len(text)
                 /\ At(text, s.i + 1) = SP
                 /\ At(text, s.i + 2) \in {BS, DEL}
    IN  [s EXCEPT !.doc = d2, !.pos = p2, !.i = IF idiom THEN s.i + 3 ELSE s.i + 1]

\* "\a"
Bell(s) == [s EXCEPT !.i = s.i + 1]

\* EraseInLine with mode "0" selecting to the end of the document
EraseInLineToEnd(s, params) ==
    LET mode == IF params = <<>> THEN <<"0">> ELSE params
        b    == StartOfBlock(s.doc, s.pos)
        e    == EndOfBlock(s.doc, s.pos)
    IN  IF mode = <<"0">>
        THEN [s EXCEPT !.doc = RemoveRange(s.doc, s.pos, Len(s.doc))]
        ELSE IF mode = <<"1">>
        THEN [s EXCEPT !.doc = RemoveRange(s.doc, b, s.pos), !.pos = b]
        ELSE IF mode = <<"2">>
        THEN [s EXCEPT !.doc = RemoveRange(s.doc, b, e), !.pos = b]
        ELSE s

\* CSI K
EraseInLine(s, params) ==
    LET mode == IF params = <<>> THEN <<"0">> ELSE params
        b    == StartOfBlock(s.doc, s.pos)
        e    == EndOfBlock(s.doc, s.pos)
    IN  IF mode = <<"0">>
        THEN [s EXCEPT !.doc = RemoveRange(s.doc, s.pos, e)]
        ELSE IF mode = <<"1">>
        THEN [s EXCEPT !.doc = RemoveRange(s.doc, b, s.pos), !.pos = b]
        ELSE IF mode = <<"2">>
        THEN [s EXCEPT !.doc = RemoveRange(s.doc, b, e), !.pos = b]
        ELSE s

\* EraseInDisplay with mode "3" left out of the full clear
EraseInDisplayWithout3(s, params) ==
    IF params \in {<<>>, <<"0">>}
    THEN [s EXCEPT !.doc = RemoveRange(s.doc, s.pos, Len(s.doc))]
    ELSE IF params = <<"1">>
    THEN [s EXCEPT !.doc = RemoveRange(s.doc, 0, s.pos), !.pos = 0]
    ELSE IF params = <<"2">>
    THEN [s EXCEPT !.doc = <<>>, !.pos = 0]
    ELSE s

\* CSI J
EraseInDisplay(s, params) ==
    LET mode == IF params = <<>> THEN <<"0">> ELSE params
    IN  IF mode = <<"0">>
        THEN [s EXCEPT !.doc = RemoveRange(s.doc, s.pos, Len(s.doc))]
        ELSE IF mode = <<"1">>
        THEN [s EXCEPT !.doc = RemoveRange(s.doc, 0, s.pos), !.pos = 0]
        ELSE IF mode \in {<<"2">>, <<"3">>}
        THEN [s EXCEPT !.doc = <<>>, !.pos = 0]
        ELSE s

\* row, col from the two parsed parts
RowColOf(r, c) ==
    IF r.ok /\ c.ok
    THEN [row |-> Max(r.val, 1), col |-> Max(c.val, 1), wide |-> c.wide]
    ELSE [row |-> 1, col |-> 1, wide |-> FALSE]

RowColParts(parts) ==
    IF Len(parts) = 2 THEN RowColOf(ParseInt(parts[1]), ParseInt(parts[2]))
    ELSE [row |-> 1, col |-> 1, wide |-> FALSE]

\* row, col of CSI H / f
RowCol(params) == RowColParts(SplitSemi(params))

\* MoveRight as a jump of n positions that does not stop at the document's end
MoveRightUnclamped(d, p, n) == p + n

\* movePosition(Right, MoveAnchor, n) from position p: n steps, each to the
\* next position of the document, stopping at its end
MoveRight(d, p, n) == Min(p + n, Len(d))

\* the cursor at the start of block rc.row - 1 of d, then moved right
PlaceCursor(s, d, b, rc) ==
    IF rc.wide
    THEN [s EXCEPT !.doc = d, !.pos = b, !.raised = TRUE]
    ELSE [s EXCEPT !.doc = d, !.pos = MoveRight(d, b, rc.col - 1)]

PositionIn(s, d, rc) == PlaceCursor(s, d, BlockPosition(d, rc.row - 1), rc)

PositionAt(s, rc) ==
    PositionIn(s, AppendBlocks(s.doc, rc.row - BlockCount(s.doc)), rc)

\* CSI H / f
CursorPosition(s, params) == PositionAt(s, RowCol(params))

\* index of the first alphabetic character at or after i, Len(text) if none
ParamsEnd(text, i) ==
    CHOOSE j \in i..Len(text) :
        /\ j = Len(text) \/ IsAlpha(At(text, j))
        /\ \A k \in i..(j - 1) : ~IsAlpha(At(text, k))

\* the dispatch on the CSI command, s.i at the command character
CsiDispatch(s, params, command) ==
    IF command = "K" THEN EraseInLine(s, params)
    ELSE IF command = "J" THEN EraseInDisplay(s, params)
    ELSE IF command \in {"H", "f"} THEN CursorPosition(s, params)
    ELSE s

\* i += 1 after the dispatch, unless the dispatch raised
CsiNext(s) == IF s.raised THEN s ELSE [s EXCEPT !.i = s.i + 1]

\* ESC [ with the parameters text[s.i:j]
CsiAt(s, text, j) ==
    IF j >= Len(text)
    THEN [s EXCEPT !.i = j, !.brk = TRUE]
    ELSE CsiNext(CsiDispatch([s EXCEPT !.i = j], Slice(text, s.i, j), At(text, j)))

\* ESC [ with s.i at the first character after "["
Csi(s, text) == CsiAt(s, text, ParamsEnd(text, s.i))

\* index after the OSC that starts before i: after its BEL or ESC \, or
\* Len(text) when the fragment ends first
RECURSIVE OscEnd(_, _)
OscEnd(text, i) ==
    IF i >= Len(text) THEN i
    ELSE IF At(text, i) = BEL THEN i + 1
    ELSE IF At(text, i) = ESC /\ i + 1 < Len(text) /\ At(text, i + 1) = "\\" THEN i + 2
    ELSE OscEnd(text, i + 1)

\* ESC ] with s.i at the first character after "]"
Osc(s, text) == [s EXCEPT !.i = OscEnd(text, s.i)]

\* Escape with an unrecognized sequence ending at the ESC: the character after
\* it is left to the next iteration
EscapeKeepsNext(s, text) ==
    LET i1 == s.i + 1
    IN  IF i1 >= Len(text) THEN [s EXCEPT !.i = i1, !.brk = TRUE]
        ELSE IF At(text, i1) = "[" THEN Csi([s EXCEPT !.i = i1 + 1], text)
        ELSE IF At(text, i1) = "]" THEN Osc([s EXCEPT !.i = i1 + 1], text)
        ELSE [s EXCEPT !.i = i1]

\* ESC
Escape(s, text) ==
    LET i1 == s.i + 1
    IN  IF i1 >= Len(text) THEN [s EXCEPT !.i = i1, !.brk = TRUE]
        ELSE IF At(text, i1) = "[" THEN Csi([s EXCEPT !.i = i1 + 1], text)
        ELSE IF At(text, i1) = "]" THEN Osc([s EXCEPT !.i = i1 + 1], text)
        ELSE [s EXCEPT !.i = i1 + 1]

\* Printable as a plain insertion: the character under the cursor is kept
PrintableInsert(s, char) ==
    [s EXCEPT !.doc = InsertAt(s.doc, s.pos, char), !.pos = s.pos + 1, !.i = s.i + 1]

\* any other character: overwrite at the cursor, or append at a line's end
Printable(s, char) ==
    LET over == s.pos < Len(s.doc) /\ s.doc[s.pos + 1] # PS
        d2   == IF over THEN RemoveRange(s.doc, s.pos, s.pos + 1) ELSE s.doc
    IN  [s EXCEPT !.doc = InsertAt(d2, s.pos, char), !.pos = s.pos + 1, !.i = s.i + 1]

\* one iteration of the while loop
Step(s, text) ==
    LET char == At(text, s.i)
    IN  IF char = CR THEN CarriageReturn(s)
        ELSE IF char = LF THEN LineFeed(s)
        ELSE IF char \in {BS, DEL} THEN Backspace(s, text)
        ELSE IF char = BEL THEN Bell(s)
        ELSE IF char = ESC THEN Escape(s, text)
        ELSE Printable(s, char)

RECURSIVE Loop(_, _)
Loop(s, text) ==
    IF s.i < Len(text) /\ ~s.brk /\ ~s.raised THEN Loop(Step(s, text), text) ELSE s

\* TerminalWidget.handle_output(text) on document d with self._cursor at p
Render(d, p, text) ==
    Loop([doc |-> d, pos |-> p, i |-> 0, brk |-> FALSE, raised |-> FALSE], text)

----------------------------------------------------------------------------
(* Paths: os.path.abspath and os.path.isdir over a small file system *)

\* os.getcwd() of the process
Cwd == <<"/", "t", "m", "p">>

\* the directories that exist, each as its sequence of component names
Dirs == {<<>>, <<<<"t", "m", "p">>>>, <<<<"t", "m", "p">>, <<"x">>>>}

\* path.split("/")
RECURSIVE SplitSlash(_, _, _)
SplitSlash(path, cur, acc) ==
    IF path = <<>> THEN Append(acc, cur)
    ELSE IF Head(path) = "/" THEN SplitSlash(Tail(path), <<>>, Append(acc, cur))
    ELSE SplitSlash(Tail(path), Append(cur, Head(path)), acc)

\* the component loop of posixpath.normpath
RECURSIVE NormComps(_, _, _)
NormComps(comps, new, rooted) ==
    IF comps = <<>> THEN new
    ELSE LET c == Head(comps)
         IN  IF c = <<>> \/ c = <<".">> THEN NormComps(Tail(comps), new, rooted)
             ELSE IF \/ c # <<".", ".">>
                     \/ (~rooted /\ new = <<>>)
                     \/ (new # <<>> /\ new[Len(new)] = <<".", ".">>)
             THEN NormComps(Tail(comps), Append(new, c), rooted)
             ELSE IF new # <<>>
             THEN NormComps(Tail(comps), SubSeq(new, 1, Len(new) - 1), rooted)
             ELSE NormComps(Tail(comps), new, rooted)

\* "/".join(comps)
RECURSIVE JoinSlash(_)
JoinSlash(comps) ==
    IF comps = <<>> THEN <<>>
    ELSE IF Len(comps) = 1 THEN Head(comps)
    ELSE Head(comps) \o <<"/">> \o JoinSlash(Tail(comps))

StartsWith(text, prefix) ==
    Len(text) >= Len(prefix) /\ SubSeq(text, 1, Len(prefix)) = prefix

\* posixpath.normpath
NormPath(path) ==
    IF path = <<>> THEN <<".">>
    ELSE LET slashes == IF ~StartsWith(path, <<"/">>) THEN <<>>
                        ELSE IF StartsWith(path, <<"/", "/">>) /\ ~StartsWith(path, <<"/", "/", "/">>)
                        THEN <<"/", "/">>
                        ELSE <<"/">>
             comps   == NormComps(SplitSlash(path, <<>>, <<>>), <<>>, slashes # <<>>)
             joined  == slashes \o JoinSlash(comps)
         IN  IF joined = <<>> THEN <<".">> ELSE joined

\* os.path.abspath
AbsPath(path) ==
    IF StartsWith(path, <<"/">>) THEN NormPath(path)
    ELSE NormPath(Cwd \o <<"/">> \o path)

\* the directory a walk from dir over comps ends in; the walk stops at the
\* first step that names no existing directory
RECURSIVE Walk(_, _)
Walk(dir, comps) ==
    IF dir \notin Dirs THEN dir
    ELSE IF comps = <<>> THEN dir
    ELSE LET c == Head(comps)
         IN  IF c = <<>> \/ c = <<".">> THEN Walk(dir, Tail(comps))
             ELSE IF c = <<".", ".">>
             THEN Walk(IF dir = <<>> THEN dir ELSE SubSeq(dir, 1, Len(dir) - 1), Tail(comps))
             ELSE Walk(Append(dir, c), Tail(comps))

\* the components of an absolute path
CompsOf(path) == NormComps(SplitSlash(path, <<>>, <<>>), <<>>, TRUE)

\* IsDir as a test that the path is not empty
IsDirNonEmpty(path) == path # <<>>

\* os.path.isdir
IsDir(path) ==
    /\ path # <<>>
    /\ Walk(IF StartsWith(path, <<"/">>) THEN <<>> ELSE CompsOf(Cwd),
            SplitSlash(path, <<>>, <<>>)) \in Dirs

----------------------------------------------------------------------------
(* TerminalTab: the directory-report extractor and set_directory *)

\* TerminalTab.OSC_DIR_PREFIX
OSC_DIR_PREFIX ==
    <<ESC, "]", "1", "3", "3", "7", ";", "C", "u", "r", "r", "e", "n", "t",
      "D", "i", "r", "=">>

\* text.find(marker, index): -1 when there is no occurrence at or after index
Find(text, marker, index) ==
    LET hits == {k \in index..(Len(text) - Len(marker)) :
                    Slice(text, k, k + Len(marker)) = marker}
    IN  IF hits = {} THEN -1
        ELSE CHOOSE k \in hits : \A j \in hits : k <= j

\* FindOscTerminator with BEL as the only terminator
RECURSIVE FindOscTerminatorBelOnly(_, _)
FindOscTerminatorBelOnly(text, i) ==
    IF i >= Len(text) THEN <<-1, 0>>
    ELSE IF At(text, i) = BEL THEN <<i, 1>>
    ELSE FindOscTerminatorBelOnly(text, i + 1)

\* TerminalTab._find_osc_terminator: <<end, terminator_length>>
RECURSIVE FindOscTerminator(_, _)
FindOscTerminator(text, i) ==
    IF i >= Len(text) THEN <<-1, 0>>
    ELSE IF At(text, i) = BEL THEN <<i, 1>>
    ELSE IF At(text, i) = ESC /\ i + 1 < Len(text) /\ At(text, i + 1) = "\\" THEN <<i, 2>>
    ELSE FindOscTerminator(text, i + 1)

\* ExtractFrom with a report the fragment does not terminate read to the
\* fragment's end
RECURSIVE ExtractFromToEnd(_, _, _)
ExtractFromToEnd(text, index, directories) ==
    LET found == Find(text, OSC_DIR_PREFIX, index)
        start == found + Len(OSC_DIR_PREFIX)
        term  == FindOscTerminator(text, start)
    IN  IF found = -1 THEN directories
        ELSE IF term[1] = -1 THEN Append(directories, Slice(text, start, Len(text)))
        ELSE ExtractFromToEnd(text, term[1] + term[2],
                              Append(directories, Slice(text, start, term[1])))

\* the while loop of TerminalTab._extract_directories from index on
RECURSIVE ExtractFrom(_, _, _)
ExtractFrom(text, index, directories) ==
    LET found == Find(text, OSC_DIR_PREFIX, index)
        start == found + Len(OSC_DIR_PREFIX)
        term  == FindOscTerminator(text, start)
    IN  IF found = -1 THEN directories
        ELSE IF term[1] = -1 THEN directories
        ELSE ExtractFrom(text, term[1] + term[2],
                         Append(directories, Slice(text, start, term[1])))

\* TerminalTab._extract_directories
ExtractDirectories(text) == ExtractFrom(text, 0, <<>>)

\* TerminalTab.set_directory(path, record_history, update_terminal=False) on
\* the navigation state nav = [history, history_index, events, current_directory]
SetDirectory(nav, path, record_history) ==
    LET directory == AbsPath(path)
        same == /\ nav.history_index >= 0
                /\ SubSeq(nav.history, 1, nav.history_index + 1) # <<>>
                /\ nav.history[nav.history_index + 1] = directory
        rec  == IF record_history /\ ~same
                THEN [nav EXCEPT
                        !.history = Append(SubSeq(nav.history, 1, nav.history_index + 1),
                                           directory),
                        !.history_index = nav.history_index + 1]
                ELSE nav
    IN  IF ~IsDir(directory) THEN nav
        ELSE [rec EXCEPT !.events = Append(rec.events, directory),
                         !.current_directory = directory]

\* the for loop of TerminalTab.handle_output over the extracted directories
RECURSIVE ReportAll(_, _)
ReportAll(nav, directories) ==
    IF directories = <<>> THEN nav
    ELSE ReportAll(IF IsDir(Head(directories))
                   THEN SetDirectory(nav, Head(directories), TRUE)
                   ELSE nav,
                   Tail(directories))

\* TerminalTab.handle_output(text) as a function of the tab's state
\* t = [doc, pos, nav]: the terminal renders, then the reports are applied;
\* an exception of the terminal's handle_output leaves before the reports
TabReports(t, text, r) ==
    [doc    |-> r.doc,
     pos    |-> r.pos,
     i      |-> r.i,
     raised |-> r.raised,
     nav    |-> IF r.raised THEN t.nav
                ELSE ReportAll(t.nav, ExtractDirectories(text))]

TabOutput(t, text) == TabReports(t, text, Render(t.doc, t.pos, text))

----------------------------------------------------------------------------
(* Inputs *)

\* longest PTY output explored exhaustively over Alphabet
MaxLen == 4

\* most fragments a scripted stream is cut into
MaxFrags == 2

\* longest initial document of the buffer specification
MaxDoc == 4

Alphabet == {"a", BS, LF, ESC, "[", "]", BEL, "K"}

Strings(S, n) == [1..n -> S]

\* "he\blo"
HelloStream == <<"h", "e", BS, "l", "o">>

\* "a" ESC "]1337;CurrentDir=/tmp/x" BEL "b"
ReportStream ==
    <<"a">> \o OSC_DIR_PREFIX \o <<"/", "t", "m", "p", "/", "x", BEL, "b">>

\* the same report closed by ESC \, then a report of a path that does not exist
ReportStream2 ==
    OSC_DIR_PREFIX \o <<"/", "t", "m", "p", ESC, "\\">>
        \o OSC_DIR_PREFIX \o <<"/", "x", BEL>>

\* "ab\b \b"
EraseIdiomStream == <<"a", "b", BS, SP, BS>>

\* "a\nb" ESC "[3;5H"
PositionStream == <<"a", LF, "b", ESC, "[", "3", ";", "5", "H">>

\* ESC "[1;2147483649H"
WideStream ==
    <<ESC, "[", "1", ";", "2", "1", "4", "7", "4", "8", "3", "6", "4", "9", "H">>

\* a report of the relative path x, then a report of /x, which does not exist
ReportStream3 ==
    OSC_DIR_PREFIX \o <<"x", BEL>> \o OSC_DIR_PREFIX \o <<"/", "x", BEL>>

\* "ab\ra\b \b": the idiom with a character to the right of the cursor
EraseIdiomStream2 == <<"a", "b", CR, "a", BS, SP, BS>>

\* the scripted PTY outputs
Scripts == {HelloStream, ReportStream, ReportStream2, ReportStream3,
            EraseIdiomStream, EraseIdiomStream2, PositionStream, WideStream}

IsPrefix(a, b) == Len(a) <= Len(b) /\ SubSeq(b, 1, Len(a)) = a

\* the fragments a read may deliver next, given what was delivered so far
NextFragments(done, n) ==
    UNION {Strings(Alphabet, k) : k \in 1..(MaxLen - Len(done))}
    \cup UNION {{Slice(s, Len(done), k) : k \in (Len(done) + 1)..Len(s)} :
                    s \in {x \in Scripts : IsPrefix(done, x) /\ n < MaxFrags}}

----------------------------------------------------------------------------
(* State machine *)

Nav == [history |-> history, history_index |-> history_index,
        events |-> events, current_directory |-> current_directory]

\* TerminalTab.__init__: an empty terminal, and set_directory(os.getcwd())
InitNav ==
    SetDirectory([history |-> <<>>, history_index |-> -1, events |-> <<>>,
                  current_directory |-> Cwd], Cwd, TRUE)

InitGhost ==
    /\ raised = FALSE
    /\ prevDoc = doc
    /\ prevPos = pos
    /\ lastText = <<>>
    /\ lastI = 0
    /\ consumed = <<>>
    /\ nfrag = 0
    /\ events = InitNav.events
    /\ history = InitNav.history
    /\ history_index = InitNav.history_index
    /\ current_directory = InitNav.current_directory

\* TerminalReader.__init__ and the descriptor of pty.openpty()
InitReader ==
    /\ running = TRUE
    /\ reader_pc = "loop"
    /\ data = <<>>
    /\ posted = <<>>
    /\ master_open = TRUE
    /\ produced = <<>>
    /\ delivered = <<>>

\* the child of subprocess.Popen, and no _shutdown_tab call yet
InitProcess ==
    /\ child = "alive"
    /\ sd_pc = "idle"
    /\ calls = 0
    /\ now = 0
    /\ started = 0
    /\ deadline = 0
    /\ signals = <<>>
    /\ timed_out = FALSE
    /\ escaped = FALSE
    /\ phases = <<>>

\* TerminalWidget.__init__ (_input_buffer) and TerminalTab.__init__
\* (command_history)
InitKeys ==
    /\ input_buffer = <<>>
    /\ command_history = <<>>
    /\ emitted = <<>>
    /\ written = <<>>
    /\ last_op = [op |-> "none", arg |-> <<>>, sel |-> FALSE]
    /\ prev_buffer = <<>>
    /\ prev_emitted = <<>>

\* no _extract_directories call yet
InitExtract ==
    /\ scanned = <<>>
    /\ extracted = <<>>

\* the shell of subprocess.Popen at its first prompt
InitShell == cd_queue = <<>>

Init ==
    /\ doc = <<>>
    /\ pos = 0
    /\ InitGhost
    /\ InitReader
    /\ InitProcess
    /\ InitKeys
    /\ InitExtract
    /\ InitShell

\* the slot TerminalTab.handle_output(text), run for one delivered fragment
HandleOutput(text) ==
    \E r \in {TabOutput([doc |-> doc, pos |-> pos, nav |-> Nav], text)} :
        /\ ~raised
        /\ doc' = r.doc
        /\ pos' = r.pos
        /\ raised' = r.raised
        /\ prevDoc' = doc
        /\ prevPos' = pos
        /\ lastText' = text
        /\ lastI' = r.i
        /\ consumed' = consumed \o text
        /\ nfrag' = nfrag + 1
        /\ events' = r.nav.events
        /\ history' = r.nav.history
        /\ history_index' = r.nav.history_index
        /\ current_directory' = r.nav.current_directory

Next ==
    \E text \in NextFragments(consumed, nfrag) :
        HandleOutput(text) /\ UNCHANGED <<rvars, svars, kvars, xvars, nvars>>

Spec == Init /\ [][Next]_vars

----------------------------------------------------------------------------
(* The buffer specification: one fragment rendered on every small buffer.  *)
(* Every document over printable characters and block separators, with the *)
(* cursor anywhere in it, is a buffer the terminal can be brought to.      *)

BufChars == {"a", "b", PS}

\* "abc"
AbcDoc == <<"a", "b", "c">>

Buffers == UNION {Strings(BufChars, k) : k \in 0..MaxDoc} \cup {AbcDoc}

\* ESC "[" params command
CSI(params, command) == <<ESC, "[">> \o params \o <<command>>

\* the parameter strings tried with each CSI command
EraseParams == {<<>>, <<"0">>, <<"1">>, <<"2">>, <<"3">>, <<"4">>, <<"2", "2">>, <<";">>}

PositionParams == {<<>>, <<"3", ";", "5">>, <<"1", ";", "4">>, <<"2", ";", "1">>,
                   <<"2">>, <<";">>, <<"-", "1", ";", "0">>, <<"?", ";", "2">>,
                   <<"2", ";", " ", "2">>, <<"1", ";", "2", ";", "3">>}

\* an OSC with text before and after it: pre ESC "]" payload terminator post
OscCases ==
    {[pre |-> pre, payload |-> pl, term |-> t, post |-> post] :
        pre \in {<<>>, <<"a">>}, pl \in {<<>>, <<"x">>, <<"0", ";", "K", ESC, "a">>},
        t \in {<<BEL>>, <<ESC, "\\">>}, post \in {<<>>, <<"b">>, <<"K", "b">>}}

OscText(c) == c.pre \o <<ESC, "]">> \o c.payload \o c.term \o c.post

\* sequences handle_output recognizes no command in: BEL, ESC and a character
\* other than "[" and "]", and CSI with a command other than K, J, H and f
NoOpSequences ==
    {<<BEL>>, <<ESC, "c">>, <<ESC, "K">>, <<ESC, ESC>>, <<ESC, LF>>, <<ESC, BS>>,
     <<ESC, BEL>>, CSI(<<>>, "m"), CSI(<<"5">>, "m"), CSI(<<"1", ";", "2">>, "x"),
     CSI(<<"?", "2", "5">>, "h"), CSI(<<LF>>, "m"), CSI(<<BS, SP, BS>>, "m"),
     CSI(<<ESC, "[", "2">>, "Z"), CSI(<<"2">>, "h"), CSI(<<"3", ";", "5">>, "e")}

\* what follows such a sequence in its fragment
NoOpTails == {<<>>, <<"Z">>, <<"K">>, <<LF>>}

NoOpTexts == {q \o t : q \in NoOpSequences, t \in NoOpTails}

OpTexts ==
    {<<"Z">>, <<SP>>, <<CR>>, <<LF>>, <<CR, LF>>, <<BS>>, <<DEL>>, <<BEL>>,
     <<BS, SP, BS>>, <<ESC, "c">>, CSI(<<"5">>, "m"),
     HelloStream, ReportStream, ReportStream2, WideStream}
    \cup {CSI(q, "J") : q \in EraseParams}
    \cup {CSI(q, "K") : q \in EraseParams}
    \cup {CSI(q, c) : q \in PositionParams, c \in {"H", "f"}}
    \cup {OscText(c) : c \in OscCases}
    \cup NoOpTexts

InitBuf ==
    /\ doc \in Buffers
    /\ pos \in 0..Len(doc)
    /\ InitGhost
    /\ InitReader
    /\ InitProcess
    /\ InitKeys
    /\ InitExtract
    /\ InitShell

NextBuf ==
    \E text \in OpTexts :
        nfrag = 0 /\ HandleOutput(text) /\ UNCHANGED <<rvars, svars, kvars, xvars, nvars>>

SpecBuf == InitBuf /\ [][NextBuf]_vars

----------------------------------------------------------------------------
(* The session specification: the reader thread, the queued hand-off of its *)
(* output signal to the tab's thread, the child process and _shutdown_tab.  *)
(* Each action is one run of a thread between two points where another      *)
(* thread can be scheduled and observe or change what it uses.              *)

\* most os.read calls that return data
MaxReads == 2

\* most calls of _shutdown_tab on the tab
MaxCalls == 2

\* tab.reader.wait(200)
ReaderJoinMs == 200

\* tab.process.wait(timeout=0.5)
GracefulWaitMs == 500

\* the outputs of the child in the session specification
SessionScripts == {HelloStream, EraseIdiomStream}

\* the fragments os.read may return next
ReadFragments(done, n) ==
    UNION {{Slice(s, Len(done), k) : k \in (Len(done) + 1)..Len(s)} :
                s \in {x \in SessionScripts : IsPrefix(done, x) /\ n < MaxReads}}

\* the fragments of a sequence, concatenated
RECURSIVE Concat(_)
Concat(frags) == IF frags = <<>> THEN <<>> ELSE Head(frags) \o Concat(Tail(frags))

\* PostEvent that puts the emission at the front of the queue
PostEventFirst(q, text) == <<text>> \o q

\* output.emit(data) from the reader thread: the connection to the tab's
\* handle_output is queued, the call is posted behind those already posted
PostEvent(q, text) == Append(q, text)

\* while self.running:
ReaderLoop ==
    /\ reader_pc = "loop"
    /\ reader_pc' = IF running THEN "read" ELSE "exit"
    /\ UNCHANGED <<running, data, posted, master_open, produced, delivered>>
    /\ UNCHANGED <<tvars, svars, kvars, xvars, nvars>>

\* os.read(self.fd, 1024) is called: on a closed descriptor it raises OSError
\* and the loop is left by break; on the open one the thread blocks in the
\* system call, which holds the open file from then on
ReaderRead ==
    /\ reader_pc = "read"
    /\ reader_pc' = IF master_open THEN "reading" ELSE "exit"
    /\ UNCHANGED <<running, data, posted, master_open, produced, delivered>>
    /\ UNCHANGED <<tvars, svars, kvars, xvars, nvars>>

\* the child has written: the blocked os.read returns, data is decoded.  A
\* call that was blocked when the descriptor was closed completes the same
\* way where the system call keeps the file open until it returns (Linux)
ReaderReturn ==
    /\ reader_pc = "reading"
    /\ \E text \in ReadFragments(Concat(produced), Len(produced)) :
            /\ data' = text
            /\ produced' = Append(produced, text)
    /\ reader_pc' = "emit"
    /\ UNCHANGED <<running, posted, master_open, delivered>>
    /\ UNCHANGED <<tvars, svars, kvars, xvars, nvars>>

\* os.close(tab.master) in the other thread makes the blocked os.read fail:
\* what happens to a call blocked on a descriptor that is closed under it
\* depends on the system, it may fail at once or stay blocked
ReaderInterrupted ==
    /\ reader_pc = "reading"
    /\ ~master_open
    /\ reader_pc' = "exit"
    /\ UNCHANGED <<running, data, posted, master_open, produced, delivered>>
    /\ UNCHANGED <<tvars, svars, kvars, xvars, nvars>>

\* self.output.emit(data)
ReaderEmit ==
    /\ reader_pc = "emit"
    /\ posted' = PostEvent(posted, data)
    /\ reader_pc' = "loop"
    /\ UNCHANGED <<running, data, master_open, produced, delivered>>
    /\ UNCHANGED <<tvars, svars, kvars, xvars, nvars>>

\* the tab's thread takes the first posted emission and calls handle_output
Deliver ==
    /\ posted # <<>>
    /\ HandleOutput(Head(posted))
    /\ posted' = Tail(posted)
    /\ delivered' = Append(delivered, Head(posted))
    /\ UNCHANGED <<running, reader_pc, data, master_open, produced>>
    /\ UNCHANGED <<svars, kvars, xvars, nvars>>

\* issubclass(exc, cls) over the exceptions of _shutdown_tab
IsSubclass(exc, cls) ==
    \/ cls = "Exception"
    \/ exc = cls
    \/ exc = "ProcessLookupError" /\ cls = "OSError"

\* the exception exc, none when "", does not leave a try with handler cls
Swallowed(exc, cls) == exc = "" \/ IsSubclass(exc, cls)

\* the exception of os.close(tab.master)
CloseError(open) == IF open THEN "" ELSE "OSError"

\* the exception of os.getpgid(tab.process.pid) / os.killpg(pgid, sig)
KillpgError(c) == IF c = "gone" THEN "ProcessLookupError" ELSE ""

\* tab.process.poll(): a child that has exited is reaped and its return code
\* kept; a child reaped elsewhere (ECHILD) gets the return code 0
Poll(c) == IF c \in {"zombie", "gone"} THEN "reaped" ELSE c

\* the child exits, by itself or by a signal
ChildExit ==
    /\ child = "alive"
    /\ child' = "zombie"
    /\ UNCHANGED <<sd_pc, calls, now, started, deadline, signals, timed_out, escaped, phases>>
    /\ UNCHANGED <<tvars, rvars, kvars, xvars, nvars>>

\* the child that has exited is reaped outside tab.process: its pid and its
\* process group are gone
ChildReaped ==
    /\ child = "zombie"
    /\ child' = "gone"
    /\ UNCHANGED <<sd_pc, calls, now, started, deadline, signals, timed_out, escaped, phases>>
    /\ UNCHANGED <<tvars, rvars, kvars, xvars, nvars>>

\* _shutdown_tab up to tab.reader.wait(200): running = False, os.close
ShutdownClose ==
    /\ sd_pc \in {"idle", "done"}
    /\ calls < MaxCalls
    /\ calls' = calls + 1
    /\ running' = FALSE
    /\ master_open' = FALSE
    /\ started' = now
    /\ timed_out' = FALSE
    /\ IF Swallowed(CloseError(master_open), "OSError")
       THEN sd_pc' = "join" /\ deadline' = now + ReaderJoinMs /\ escaped' = escaped
       ELSE sd_pc' = "done" /\ deadline' = deadline /\ escaped' = TRUE
    /\ phases' = <<"close">>
    /\ UNCHANGED <<child, now, signals>>
    /\ UNCHANGED <<reader_pc, data, posted, produced, delivered>>
    /\ UNCHANGED <<tvars, kvars, xvars, nvars>>

\* tab.reader.wait(200) returns: the thread has finished or the time is up
ReaderJoined(pc, t, d) == pc = "exit" \/ t >= d

ShutdownJoin ==
    /\ sd_pc = "join"
    /\ ReaderJoined(reader_pc, now, deadline)
    /\ sd_pc' = "poll"
    /\ phases' = Append(phases, "join")
    /\ UNCHANGED <<child, calls, now, started, deadline, signals, timed_out, escaped>>
    /\ UNCHANGED <<tvars, rvars, kvars, xvars, nvars>>

\* if tab.process.poll() is None:
ShutdownPoll ==
    /\ sd_pc = "poll"
    /\ child' = Poll(child)
    /\ sd_pc' = IF Poll(child) = "alive" THEN "terminate" ELSE "done"
    /\ phases' = Append(phases, IF Poll(child) = "alive" THEN "alive" ELSE "exited")
    /\ UNCHANGED <<calls, now, started, deadline, signals, timed_out, escaped>>
    /\ UNCHANGED <<tvars, rvars, kvars, xvars, nvars>>

\* the signals after os.killpg(os.getpgid(pid), sig) in a try whose handler
\* calls tab.process.terminate() / kill(), which polls and sends nothing to a
\* child that is gone
SendSignal(sent, c, n, sig) ==
    IF KillpgError(c) = "" THEN Append(sent, <<n, "group", sig>>)
    ELSE sent

\* the child after the same: the fallback's poll keeps a return code
AfterSignal(c) == IF KillpgError(c) = "" THEN c ELSE Poll(c)

\* os.killpg(pgid, signal.SIGTERM), then process.wait(timeout=0.5) starts
ShutdownTerminate ==
    /\ sd_pc = "terminate"
    /\ signals' = SendSignal(signals, child, calls, "SIGTERM")
    /\ child' = AfterSignal(child)
    /\ IF Swallowed(KillpgError(child), "Exception")
       THEN sd_pc' = "wait" /\ deadline' = now + GracefulWaitMs /\ escaped' = escaped
       ELSE sd_pc' = "done" /\ deadline' = deadline /\ escaped' = TRUE
    /\ phases' = Append(phases, "terminate")
    /\ UNCHANGED <<calls, now, started, timed_out>>
    /\ UNCHANGED <<tvars, rvars, kvars, xvars, nvars>>

\* ProcessWaited that returns only when the child has exited
ProcessWaitedNoTimeout(c, t, d) == c # "alive"

\* tab.process.wait(timeout=0.5) is over: the child has exited, or the time
\* is up and TimeoutExpired is raised
ProcessWaited(c, t, d) == c # "alive" \/ t >= d

\* AfterWait that goes on to the forceful signal whatever the wait returned
AfterWaitAlwaysKill(c) == "kill"

\* where _shutdown_tab goes after the wait: into the TimeoutExpired handler
\* when the child is still alive, to its end when the wait returned
AfterWait(c) == IF c = "alive" THEN "kill" ELSE "done"

ShutdownWait ==
    /\ sd_pc = "wait"
    /\ ProcessWaited(child, now, deadline)
    /\ child' = Poll(child)
    /\ timed_out' = (child = "alive")
    /\ sd_pc' = AfterWait(child)
    /\ phases' = Append(phases, IF child = "alive" THEN "expired" ELSE "exited")
    /\ UNCHANGED <<calls, now, started, deadline, signals, escaped>>
    /\ UNCHANGED <<tvars, rvars, kvars, xvars, nvars>>

\* except subprocess.TimeoutExpired: os.killpg(pgid, signal.SIGKILL)
ShutdownKill ==
    /\ sd_pc = "kill"
    /\ signals' = SendSignal(signals, child, calls, "SIGKILL")
    /\ child' = AfterSignal(child)
    /\ escaped' = (escaped \/ ~Swallowed(KillpgError(child), "Exception"))
    /\ sd_pc' = "done"
    /\ phases' = Append(phases, "kill")
    /\ UNCHANGED <<calls, now, started, deadline, timed_out>>
    /\ UNCHANGED <<tvars, rvars, kvars, xvars, nvars>>

\* the timeout of the wait _shutdown_tab is in
Timeout == IF sd_pc = "join" THEN ReaderJoinMs ELSE GracefulWaitMs

\* time passes while _shutdown_tab is in a wait, up to the wait's deadline
Elapse ==
    /\ sd_pc \in {"join", "wait"}
    /\ now < deadline
    /\ now' \in {deadline} \cup (IF now + Timeout = deadline
                                 THEN {now + (Timeout \div 2)} ELSE {})
    /\ UNCHANGED <<child, sd_pc, calls, started, deadline, signals, timed_out, escaped, phases>>
    /\ UNCHANGED <<tvars, rvars, kvars, xvars, nvars>>

\* the steps of _shutdown_tab after its call
ShutdownStep ==
    ShutdownJoin \/ ShutdownPoll \/ ShutdownTerminate \/ ShutdownWait \/ ShutdownKill

NextSession ==
    \/ ReaderLoop
    \/ ReaderRead
    \/ ReaderEmit
    \/ ReaderReturn
    \/ ReaderInterrupted
    \/ Deliver
    \/ ChildExit
    \/ ChildReaped
    \/ ShutdownClose
    \/ ShutdownJoin
    \/ ShutdownPoll
    \/ ShutdownTerminate
    \/ ShutdownWait
    \/ ShutdownKill
    \/ Elapse

SpecSession == Init /\ [][NextSession]_vars

\* the session with the reader thread scheduled: each statement of run is
\* executed in the end, and a blocked os.read returns when there is data.
\* Nothing makes a system wake a call blocked on a descriptor closed under it
SpecReader ==
    /\ SpecSession
    /\ WF_vars(ReaderLoop)
    /\ WF_vars(ReaderRead)
    /\ WF_vars(ReaderReturn)
    /\ WF_vars(ReaderEmit)

\* the session with _shutdown_tab's thread scheduled and time passing
SpecShutdown == SpecSession /\ WF_vars(ShutdownStep) /\ WF_vars(Elapse)

----------------------------------------------------------------------------
(* The input specification: TerminalWidget.keyPressEvent, send_command and  *)
(* _record_command, and TerminalTab._on_command_executed, which is          *)
(* connected to command_executed in the same thread and runs inside emit.   *)
(* The widget and the tab's history are the record                          *)
(* w = [buf, written, emitted, history, doc, pos]; doc and pos are the      *)
(* widget's document and cursor, which the base class QTextEdit edits when  *)
(* a key event is passed on to it.                                          *)

TAB == "TAB"
ETX == "ETX"

\* longest _input_buffer explored
MaxBuf == 3

\* most command_executed emissions explored
MaxHist == 2

\* longest command given to send_command
MaxCmd == 3

\* str.isspace() of one character
IsSpace(c) == c \in {SP, TAB, LF, CR}

\* command.strip()
RECURSIVE StripWsLeft(_)
StripWsLeft(t) == IF t # <<>> /\ IsSpace(Head(t)) THEN StripWsLeft(Tail(t)) ELSE t

RECURSIVE StripWsRight(_)
StripWsRight(t) ==
    IF t # <<>> /\ IsSpace(t[Len(t)]) THEN StripWsRight(SubSeq(t, 1, Len(t) - 1)) ELSE t

StripWs(t) == StripWsRight(StripWsLeft(t))

\* TerminalTab._on_command_executed
OnCommandExecuted(h, command) == Append(h, command)

\* self.command_executed.emit(command)
EmitCommand(w, command) ==
    [w EXCEPT !.emitted = Append(w.emitted, command),
              !.history = OnCommandExecuted(w.history, command)]

\* TerminalWidget._record_command
RecordCommand(w, command) ==
    IF StripWs(command) # <<>> THEN EmitCommand(w, StripWs(command)) ELSE w

\* command.endswith("\n")
EndsWithLF(command) == command # <<>> /\ command[Len(command)] = LF

\* the text send_command writes
CommandBytes(command, add_newline) ==
    IF add_newline /\ ~EndsWithLF(command) THEN Append(command, LF) ELSE command

\* send_command that submits the pending buffer together with the command
send_command_submits(w, command, add_newline) ==
    IF add_newline
    THEN [RecordCommand([w EXCEPT !.written = CommandBytes(command, add_newline)],
                        w.buf \o command) EXCEPT !.buf = <<>>]
    ELSE [w EXCEPT !.written = CommandBytes(command, add_newline)]

\* send_command without its call of _record_command
send_command_unrecorded(w, command, add_newline) ==
    [w EXCEPT !.written = CommandBytes(command, add_newline)]

\* TerminalWidget.send_command
send_command(w, command, add_newline) ==
    IF add_newline
    THEN RecordCommand([w EXCEPT !.written = CommandBytes(command, add_newline)], command)
    ELSE [w EXCEPT !.written = CommandBytes(command, add_newline)]

\* the keys of special_mappings other than Backspace, with what they write
SpecialKeys == {"Tab", "Up", "Escape"}

SpecialBytes(key) ==
    IF key = "Tab" THEN <<TAB>>
    ELSE IF key = "Up" THEN <<ESC, "[", "A">>
    ELSE <<ESC>>

\* a key event: the key, event.text(), whether it matches Copy or Paste,
\* whether the widget has a selection, and the clipboard's text
KeyEvent(key, text, sel, clip) == [key |-> key, text |-> text, sel |-> sel, clip |-> clip]

\* Enter that keeps the buffer
EnterKeyKeepsBuffer(w) == RecordCommand([w EXCEPT !.written = <<CR>>], w.buf)

\* keyPressEvent, Enter/Return
EnterKey(w) ==
    [RecordCommand([w EXCEPT !.written = <<CR>>], w.buf) EXCEPT !.buf = <<>>]

\* keyPressEvent, Backspace
BackspaceKey(w) ==
    [w EXCEPT !.buf = IF w.buf # <<>> THEN SubSeq(w.buf, 1, Len(w.buf) - 1) ELSE w.buf,
              !.written = <<BS>>]

\* QTextEdit.keyPressEvent of the editable widget: the text of the key is
\* inserted at the cursor, a key without text edits nothing
RECURSIVE QTextEditKeyPress(_, _)
QTextEditKeyPress(w, text) ==
    IF text = <<>> THEN w
    ELSE QTextEditKeyPress([w EXCEPT !.doc = InsertAt(w.doc, w.pos, Head(text)),
                                     !.pos = w.pos + 1], Tail(text))

\* TextKey that also passes the key with text on to QTextEdit.keyPressEvent
TextKeyEchoed(w, text) ==
    QTextEditKeyPress([w EXCEPT !.buf = w.buf \o text,
                                !.written = IF text # <<>> THEN text ELSE w.written],
                      text)

\* keyPressEvent, a key with text: written and appended to the buffer; a key
\* without text goes to QTextEdit.keyPressEvent
TextKey(w, text) ==
    IF text # <<>> THEN [w EXCEPT !.buf = w.buf \o text, !.written = text]
    ELSE QTextEditKeyPress(w, text)

\* Copy that interrupts whether or not there is a selection
CopyKeyInterrupts(w, sel) == [w EXCEPT !.buf = <<>>, !.written = <<ETX>>]

\* keyPressEvent, Copy: self.copy() with a selection, the interrupt without
CopyKey(w, sel) ==
    IF sel THEN w ELSE [w EXCEPT !.buf = <<>>, !.written = <<ETX>>]

\* TerminalWidget.keyPressEvent
keyPressEvent(w, event) ==
    IF event.key = "Copy" THEN CopyKey(w, event.sel)
    ELSE IF event.key = "Paste" THEN (IF event.clip # <<>> THEN TextKey(w, event.clip) ELSE w)
    ELSE IF event.key \in {"Return", "Enter"} THEN EnterKey(w)
    ELSE IF event.key = "Backspace" THEN BackspaceKey(w)
    ELSE IF event.key \in SpecialKeys THEN [w EXCEPT !.written = SpecialBytes(event.key)]
    ELSE TextKey(w, event.text)

\* the key event that types the character c
KeyOf(c) ==
    IF c = TAB THEN KeyEvent("Tab", <<TAB>>, FALSE, <<>>)
    ELSE IF c \in {LF, CR} THEN KeyEvent("Return", <<CR>>, FALSE, <<>>)
    ELSE IF c = BS THEN KeyEvent("Backspace", <<BS>>, FALSE, <<>>)
    ELSE KeyEvent("Text", <<c>>, FALSE, <<>>)

\* the characters of text typed one by one
RECURSIVE TypeText(_, _)
TypeText(w, text) ==
    IF text = <<>> THEN w ELSE TypeText(keyPressEvent(w, KeyOf(Head(text))), Tail(text))

\* the key events explored
KeyEvents ==
    {KeyEvent(k, <<>>, FALSE, <<>>) : k \in {"Return", "Enter", "Backspace", "Shift"} \cup SpecialKeys}
    \cup {KeyEvent("Text", <<c>>, FALSE, <<>>) : c \in {"l", SP}}
    \cup {KeyEvent("Copy", <<ETX>>, sel, <<>>) : sel \in BOOLEAN}
    \cup {KeyEvent("Paste", <<>>, FALSE, clip) : clip \in {<<>>, <<"l", LF>>}}

\* the commands given to send_command: every short text
CommandChars == {"l", SP, TAB, LF, BS}

CommandTexts == UNION {Strings(CommandChars, k) : k \in 0..MaxCmd}

\* the commands replayed from the history dialog
ReplayTexts == {<<"l">>, <<SP, "l", LF>>, <<"l", TAB, "l">>}

\* the widget and the tab's history as a record, before an input operation
\* has written anything
Widget == [buf |-> input_buffer, written |-> <<>>, emitted |-> emitted,
           history |-> command_history, doc |-> doc, pos |-> pos]

\* the input operation that leads to w, recorded as op
InputOp(w, op) ==
    /\ Len(w.buf) <= MaxBuf
    /\ Len(emitted) < MaxHist
    /\ input_buffer' = w.buf
    /\ written' = w.written
    /\ emitted' = w.emitted
    /\ command_history' = w.history
    /\ last_op' = op
    /\ prev_buffer' = input_buffer
    /\ prev_emitted' = emitted
    /\ doc' = w.doc
    /\ pos' = w.pos
    /\ UNCHANGED <<raised, prevDoc, prevPos, lastText, lastI, consumed, nfrag,
                   events, history, history_index, current_directory>>
    /\ UNCHANGED <<rvars, svars, xvars, nvars>>

\* one key event of the set keys is handled
KeyPressOf(keys) == \E event \in keys :
    InputOp(keyPressEvent(Widget, event),
            [op |-> event.key, arg |-> event.text \o event.clip, sel |-> event.sel])

KeyPress == KeyPressOf(KeyEvents)

SendCommand(texts) == \E command \in texts, add_newline \in BOOLEAN :
    InputOp(send_command(Widget, command, add_newline),
            [op |-> IF add_newline THEN "send_command" ELSE "send_raw", arg |-> command,
             sel |-> FALSE])

\* keys, and commands replayed
NextKeys == KeyPress \/ SendCommand(ReplayTexts)

SpecKeys == Init /\ [][NextKeys]_vars

\* keys typed into a tab that has submitted no command yet, then one
\* send_command of any command
FirstCommand == emitted = <<>> /\ last_op.op \notin {"send_command", "send_raw"}

NextSend ==
    \/ FirstCommand /\ KeyPress
    \/ FirstCommand /\ SendCommand(CommandTexts)

SpecSend == Init /\ [][NextSend]_vars

----------------------------------------------------------------------------
(* The writers specification: the session with keys pressed in the tab.     *)
(* The keys reach the widget while its tab is shown: close_tab removes the   *)
(* tab before it starts _shutdown_tab, closeEvent closes the window.        *)

\* the keys pressed: a character, a key without text, Return, and Copy
\* without a selection
WriterKeys ==
    {KeyEvent("Text", <<"l">>, FALSE, <<>>), KeyEvent("Shift", <<>>, FALSE, <<>>),
     KeyEvent("Return", <<CR>>, FALSE, <<>>), KeyEvent("Copy", <<ETX>>, FALSE, <<>>)}

\* a key pressed at an empty command line
KeyPressOnTab ==
    /\ sd_pc = "idle"
    /\ input_buffer = <<>>
    /\ KeyPressOf(WriterKeys)

NextWriters == NextSession \/ KeyPressOnTab

SpecWriters == Init /\ [][NextWriters]_vars

----------------------------------------------------------------------------
(* The navigation specification: go_back and go_forward, the cd commands    *)
(* they write to the shell, and the directory reports the shell prints at   *)
(* its next prompt (PROMPT_COMMAND), which arrive later through the reader  *)
(* and the queued hand-off, in the order of the commands.                   *)

\* most cd commands the shell is given, by the user and by the tab
MaxCds == 4

\* most cd commands waiting for their report
MaxPending == 2

\* the directories the user changes to
NavDirs == {<<"/">>, Cwd, Cwd \o <<"/", "x">>}

\* the characters shlex.quote leaves unquoted
SafeChars == Letters \cup DigitSet \cup {"/", ".", "-", "_", "=", ":", ",", "+", "@", "%"}

\* shlex.quote(s), for s without a single quote
ShlexQuote(t) ==
    IF t # <<>> /\ \A k \in 1..Len(t) : t[k] \in SafeChars THEN t
    ELSE <<"'">> \o t \o <<"'">>

\* f"cd {shlex.quote(directory)}"
CdCommand(directory) == <<"c", "d", SP>> \o ShlexQuote(directory)

\* the report PROMPT_COMMAND prints: printf '\033]1337;CurrentDir=%s\007' "$PWD"
Report(directory) == OSC_DIR_PREFIX \o directory \o <<BEL>>

\* the user changes directory at the command line: the shell gets a cd
UserCd ==
    \E d \in NavDirs :
        /\ nfrag + Len(cd_queue) < MaxCds
        /\ Len(cd_queue) < MaxPending
        /\ cd_queue' = Append(cd_queue, [dir |-> d, origin |-> "user"])
        /\ UNCHANGED <<tvars, rvars, svars, kvars, xvars>>

\* set_directory(path, record_history=False, update_terminal=True) with
\* history_index already moved to i: w is the widget after send_command
SetDirectoryAndCd(i, directory, w, op) ==
    \E nav \in {SetDirectory([Nav EXCEPT !.history_index = i], directory, FALSE)} :
        /\ history' = nav.history
        /\ history_index' = nav.history_index
        /\ events' = nav.events
        /\ current_directory' = nav.current_directory
        /\ IF IsDir(directory)
           THEN /\ cd_queue' = Append(cd_queue, [dir |-> directory, origin |-> "nav"])
                /\ input_buffer' = w.buf
                /\ written' = w.written
                /\ emitted' = w.emitted
                /\ command_history' = w.history
           ELSE UNCHANGED <<cd_queue, input_buffer, written, emitted, command_history>>
        /\ last_op' = [op |-> op, arg |-> directory, sel |-> FALSE]
        /\ prev_buffer' = input_buffer
        /\ prev_emitted' = emitted
        /\ UNCHANGED <<doc, pos, raised, prevDoc, prevPos, lastText, lastI, consumed, nfrag>>
        /\ UNCHANGED <<rvars, svars, xvars>>

\* go_back / go_forward to index i of the history
Navigate(i, op) ==
    /\ nfrag + Len(cd_queue) < MaxCds
    /\ Len(cd_queue) < MaxPending
    /\ SetDirectoryAndCd(i, AbsPath(history[i + 1]),
                         send_command(Widget, CdCommand(AbsPath(history[i + 1])), TRUE), op)

\* TerminalTab.go_back
GoBack == history_index > 0 /\ Navigate(history_index - 1, "go_back")

\* TerminalTab.go_forward
GoForward == history_index < Len(history) - 1 /\ Navigate(history_index + 1, "go_forward")

\* the shell runs the first waiting cd and prints its report, the reader
\* emits it and the tab's handle_output gets it as one fragment
ShellReport ==
    /\ cd_queue # <<>>
    /\ HandleOutput(Report(Head(cd_queue).dir))
    /\ cd_queue' = Tail(cd_queue)
    /\ UNCHANGED <<rvars, svars, kvars, xvars>>

NextNav == UserCd \/ GoBack \/ GoForward \/ ShellReport

SpecNav == Init /\ [][NextNav]_vars

----------------------------------------------------------------------------
(* The extractor specification: TerminalTab._extract_directories applied to *)
(* fragments put together from the marker, the terminators and their parts. *)

\* most pieces a fragment is put together from
MaxPieces == 4

\* most calls in a row
MaxScans == 2

ExtractPieces ==
    {OSC_DIR_PREFIX, OSC_DIR_PREFIX \o <<"x">>, <<"x">>, <<BEL>>, <<ESC, "\\">>, <<ESC>>}

ExtractTexts ==
    {Concat(ps) : ps \in UNION {Strings(ExtractPieces, k) : k \in 0..MaxPieces}}

\* the fragments that follow the first one
LaterTexts ==
    {<<"x", BEL>>, <<"\\", "x">>, OSC_DIR_PREFIX \o <<"x", ESC, "\\">>}

\* one call directories = self._extract_directories(text)
ExtractCall(texts) ==
    \E text \in texts :
        /\ Len(scanned) < MaxScans
        /\ scanned' = Append(scanned, text)
        /\ extracted' = Append(extracted, ExtractDirectories(text))
        /\ UNCHANGED <<tvars, rvars, svars, kvars, nvars>>

NextExtract ==
    \/ scanned = <<>> /\ ExtractCall(ExtractTexts)
    \/ scanned # <<>> /\ ExtractCall(LaterTexts)

SpecExtract == Init /\ [][NextExtract]_vars

----------------------------------------------------------------------------
(* Properties *)

\* the tab as TerminalTab.__init__ leaves it
InitTab == [doc |-> <<>>, pos |-> 0, nav |-> InitNav]

\* the whole output delivered so far, processed as one fragment
Unfragmented == TabOutput(InitTab, consumed)

\* the fragments delivered before the last one, concatenated
EarlierText == SubSeq(consumed, 1, Len(consumed) - Len(lastText))

\* ParserState of the specification, by character: Normal, Escape, CSI, OSC,
\* and OSCEsc for an OSC whose last character is an ESC
ParserStep(st, c) ==
    IF st = "Normal" THEN (IF c = ESC THEN "Escape" ELSE "Normal")
    ELSE IF st = "Escape"
    THEN (IF c = "[" THEN "CSI" ELSE IF c = "]" THEN "OSC" ELSE "Normal")
    ELSE IF st = "CSI" THEN (IF IsAlpha(c) THEN "Normal" ELSE "CSI")
    ELSE IF c = BEL THEN "Normal"
    ELSE IF c = ESC THEN "OSCEsc"
    ELSE IF st = "OSCEsc" /\ c = "\\" THEN "Normal"
    ELSE "OSC"

RECURSIVE ParserStateAfter(_, _)
ParserStateAfter(st, text) ==
    IF text = <<>> THEN st ELSE ParserStateAfter(ParserStep(st, Head(text)), Tail(text))

\* the lines with the empty line x inserted after the first k of them
InsertLine(L, k, x) == SubSeq(L, 1, k) \o <<x>> \o SubSeq(L, k + 1, Len(L))

\* C1: fragmentation invariance.  However the output delivered so far was cut
\* into fragments, the ScreenBuffer (lines and cursor) and the sequence of
\* directory-change events are those of processing it as one fragment.
FragmentationInvariance ==
    (~raised /\ ~Unfragmented.raised) =>
        /\ doc = Unfragmented.doc
        /\ pos = Unfragmented.pos
        /\ events = Unfragmented.nav.events

\* C2: a control sequence cut by a fragment boundary is resumed.  When the
\* first of two fragments ends inside a control sequence (after ESC, inside a
\* CSI, inside an OSC), the second continues it: the buffer is that of the
\* unsplit text, so nothing of the sequence shows as visible text.
SplitSequenceResumes ==
    (nfrag = 2 /\ ~raised /\ ~Unfragmented.raised
        /\ ParserStateAfter("Normal", EarlierText) # "Normal") =>
        /\ doc = Unfragmented.doc
        /\ pos = Unfragmented.pos

\* C3: the ScreenBuffer invariant.  After handle_output the buffer has at
\* least one line, the cursor's line index is one of its lines and the
\* cursor's column index is between 0 and the length of that line.
BufferInvariant ==
    /\ pos \in 0..Len(doc)
    /\ BlockCount(doc) >= 1
    /\ Len(Lines(doc)) = BlockCount(doc)
    /\ CursorLine(doc, pos) \in 0..(BlockCount(doc) - 1)
    /\ CursorCol(doc, pos) \in 0..Len(LineOf(doc, CursorLine(doc, pos)))

BufferInvariantWitness ==
    /\ nfrag = 1
    /\ lastText = CSI(<<"3", ";", "5">>, "H")
    /\ BlockCount(prevDoc) = 1
    /\ BlockCount(doc) = 3
    /\ CursorLine(doc, pos) = 2

\* the ordinary characters written in the buffer specification
Ordinary == {"Z", SP}

\* the relation of C4 between the buffer before (d, p) and after (d2, p2)
\* writing the ordinary character c
Overwritten(d, p, d2, p2, c) ==
    LET n   == CursorLine(d, p)
        col == CursorCol(d, p)
        old == Lines(d)
        new == Lines(d2)
    IN  /\ Len(new) = Len(old)
        /\ \A k \in 1..Len(old) : k # n + 1 => new[k] = old[k]
        /\ IF col < Len(old[n + 1])
           THEN new[n + 1] = [old[n + 1] EXCEPT ![col + 1] = c]
           ELSE new[n + 1] = Append(old[n + 1], c)
        /\ CursorLine(d2, p2) = n
        /\ CursorCol(d2, p2) = col + 1

\* C4: overwrite semantics.  An ordinary character written where the current
\* line has a character replaces exactly that character; written at the end of
\* the line it is appended; every other line is unchanged and the cursor
\* advances one column.  "abc" with the cursor at column 1 and "Z" written is
\* "aZc" with the cursor at column 2.
OverwriteSemantics ==
    /\ (nfrag = 1 /\ Len(lastText) = 1 /\ lastText[1] \in Ordinary) =>
            /\ pos \in 0..Len(doc)
            /\ Overwritten(prevDoc, prevPos, doc, pos, lastText[1])
    /\ (nfrag = 1 /\ lastText = <<"Z">> /\ prevDoc = AbcDoc /\ prevPos = 1) =>
            (doc = <<"a", "Z", "c">> /\ pos = 2)

OverwriteWitness ==
    /\ nfrag = 1
    /\ lastText = <<"Z">>
    /\ prevDoc = AbcDoc
    /\ prevPos = 1
    /\ doc = <<"a", "Z", "c">>

\* C5: backspace.  "\b" or DEL deletes only when the cursor's column is above
\* 0, and then exactly the character before the cursor; at column 0 of any
\* line the lines and the cursor are left as they were.
BackspaceWithinLine ==
    (nfrag = 1 /\ lastText \in {<<BS>>, <<DEL>>}) =>
        IF CursorCol(prevDoc, prevPos) > 0
        THEN /\ doc = RemoveRange(prevDoc, prevPos - 1, prevPos)
             /\ pos = prevPos - 1
             /\ BlockCount(doc) = BlockCount(prevDoc)
        ELSE doc = prevDoc /\ pos = prevPos

\* C6: CRLF is LF.  "\r\n" and "\n" both insert one empty line after the
\* current line, leave every other line as it was and put the cursor on the
\* new line at column 0; "\r" alone changes no line and puts the cursor at
\* column 0 of the current line.
CrLfIsLf ==
    /\ (nfrag = 1 /\ lastText \in {<<LF>>, <<CR, LF>>}) =>
            /\ pos \in 0..Len(doc)
            /\ Lines(doc) = InsertLine(Lines(prevDoc), CursorLine(prevDoc, prevPos) + 1, <<>>)
            /\ CursorLine(doc, pos) = CursorLine(prevDoc, prevPos) + 1
            /\ CursorCol(doc, pos) = 0
    /\ (nfrag = 1 /\ lastText = <<CR>>) =>
            /\ doc = prevDoc
            /\ pos \in 0..Len(doc)
            /\ CursorLine(doc, pos) = CursorLine(prevDoc, prevPos)
            /\ CursorCol(doc, pos) = 0

CrLfWitness ==
    /\ nfrag = 1
    /\ lastText = <<CR, LF>>
    /\ prevDoc = <<"a", "b", PS>>
    /\ prevPos = 1
    /\ Lines(doc) = <<<<"a", "b">>, <<>>, <<>>>>
    /\ pos = 3

\* C7: erase in display.  CSI J with "" or "0" erases from the cursor to the
\* end of the buffer, with "1" from the start of the buffer to the cursor,
\* with "2" or "3" the buffer becomes one empty line with the cursor at
\* (0, 0); with any other parameter the buffer is unchanged.
EraseInDisplaySemantics ==
    /\ (nfrag = 1 /\ lastText \in {CSI(<<>>, "J"), CSI(<<"0">>, "J")}) =>
            (doc = SubSeq(prevDoc, 1, prevPos) /\ pos = prevPos)
    /\ (nfrag = 1 /\ lastText = CSI(<<"1">>, "J")) =>
            (doc = SubSeq(prevDoc, prevPos + 1, Len(prevDoc)) /\ pos = 0)
    /\ (nfrag = 1 /\ lastText \in {CSI(<<"2">>, "J"), CSI(<<"3">>, "J")}) =>
            (Lines(doc) = <<<<>>>> /\ pos = 0)
    /\ (nfrag = 1 /\ lastText \in {CSI(q, "J") : q \in EraseParams \ {<<>>, <<"0">>, <<"1">>, <<"2">>, <<"3">>}}) =>
            (doc = prevDoc /\ pos = prevPos)

EraseInDisplayWitness ==
    /\ nfrag = 1
    /\ lastText = CSI(<<"3">>, "J")
    /\ BlockCount(prevDoc) = 2
    /\ Len(prevDoc) = MaxDoc
    /\ doc = <<>>

\* C8 as stated: ESC [ 3 ; 5 H on a buffer of 2 lines extends it to at least
\* 3 lines and puts the cursor at line index 2, column index 4.
PositionExampleAsStated ==
    (nfrag = 1 /\ lastText = CSI(<<"3", ";", "5">>, "H") /\ BlockCount(prevDoc) = 2) =>
        /\ BlockCount(doc) >= 3
        /\ CursorLine(doc, pos) = 2
        /\ CursorCol(doc, pos) = 4

\* C8 as amended: ESC [ 3 ; 5 H on a buffer of 2 lines appends one empty
\* line, leaving the two lines as they were, and puts the cursor on it at
\* line index 2, column index 0: the column is clamped to the length of the
\* new line, which is empty.
PositionExample ==
    (nfrag = 1 /\ lastText = CSI(<<"3", ";", "5">>, "H") /\ BlockCount(prevDoc) = 2) =>
        /\ pos \in 0..Len(doc)
        /\ Lines(doc) = Lines(prevDoc) \o <<<<>>>>
        /\ CursorLine(doc, pos) = 2
        /\ CursorCol(doc, pos) = 0

PositionExampleWitness ==
    /\ nfrag = 1
    /\ lastText = CSI(<<"3", ";", "5">>, "H")
    /\ prevDoc = <<"a", PS, "b">>
    /\ doc = <<"a", PS, "b", PS>>
    /\ pos = 4

\* the OSC sequences of the scripted streams, as pre / OSC / post
OscStreams ==
    {[pre |-> <<"a">>, osc |-> SubSeq(ReportStream, 2, Len(ReportStream) - 1),
      post |-> <<"b">>]}

\* C9: OSC sequences never render.  When the output delivered so far is text,
\* one OSC sequence with its terminator, and text, the buffer is that of the
\* text before and after alone; for "a" ESC "]1337;CurrentDir=/tmp/x" BEL "b"
\* it shows "ab" and there is exactly one directory-change event, /tmp/x.
OscNeverRenders ==
    \A c \in OscStreams :
        (consumed = c.pre \o c.osc \o c.post) =>
            /\ doc = Render(<<>>, 0, c.pre \o c.post).doc
            /\ pos = Render(<<>>, 0, c.pre \o c.post).pos
            /\ Lines(doc) = <<<<"a", "b">>>>
            /\ events = Append(InitNav.events, <<"/", "t", "m", "p", "/", "x">>)

\* C10: the interpreter is total.  handle_output raises nothing and leaves its
\* loop with every character of the fragment consumed.
InterpreterTotal ==
    /\ ~raised
    /\ lastI = Len(lastText)

ShuttingDown == sd_pc \in {"join", "poll", "terminate", "wait", "kill"}

\* the last _shutdown_tab call sent sig to the child's process group
SentToGroup(sig) == \E k \in 1..Len(signals) : signals[k] = <<calls, "group", sig>>

\* C12: shutdown is bounded.  Every _shutdown_tab call returns, also when the
\* reader thread never exits and when the child never exits; from its call to
\* its return no more time passes than the reader join timeout plus the
\* graceful wait; and when the graceful wait timed out on a child that ignored
\* SIGTERM, SIGKILL has been sent to the child's process group when it returns.
ShutdownBounded ==
    /\ [](ShuttingDown => <>(sd_pc = "done"))
    /\ [](sd_pc # "idle" => now - started <= ReaderJoinMs + GracefulWaitMs)
    /\ []((sd_pc = "done" /\ timed_out /\ child # "reaped") => SentToGroup("SIGKILL"))

ShutdownBoundedWitness ==
    /\ sd_pc = "done"
    /\ calls = 1
    /\ reader_pc = "read"
    /\ child = "alive"
    /\ timed_out
    /\ now - started = ReaderJoinMs + GracefulWaitMs
    /\ signals = <<<<1, "group", "SIGTERM">>, <<1, "group", "SIGKILL">>>>

\* C13: teardown never raises and is idempotent.  No exception leaves
\* _shutdown_tab, whether the master descriptor is already closed, the child
\* already dead or its process group gone; and a call on a session that an
\* earlier call has already shut down sends no signal.
TeardownNeverRaises ==
    /\ ~escaped
    /\ \A k \in 1..Len(signals) : signals[k][1] = 1

\* the widget of TerminalWidget.__init__ with the tab's empty history
EmptyWidget ==
    [buf |-> <<>>, written |-> <<>>, emitted |-> <<>>, history |-> <<>>,
     doc |-> <<>>, pos |-> 0]

\* the command_executed emissions of the last input operation
NewlyEmitted == SubSeq(emitted, Len(prev_emitted) + 1, Len(emitted))

\* t is b without the whitespace at its two ends
IsTrimOf(t, b) ==
    \E i \in 1..(Len(b) + 1) : \E j \in (i - 1)..Len(b) :
        /\ t = SubSeq(b, i, j)
        /\ \A k \in (1..(i - 1)) \cup ((j + 1)..Len(b)) : IsSpace(b[k])
        /\ t # <<>> => (~IsSpace(t[1]) /\ ~IsSpace(t[Len(t)]))

\* what send_command(command) emitted is what typing command and Enter emits
SameAsTyped(command) ==
    NewlyEmitted = keyPressEvent(TypeText(EmptyWidget, command),
                                 KeyEvent("Return", <<CR>>, FALSE, <<>>)).emitted

\* what send_command(command) wrote: command, and "\n" unless it ends with it
TerminatorAppended(command) ==
    /\ IsPrefix(command, written)
    /\ written # <<>> /\ written[Len(written)] = LF
    /\ Len(written) = IF command # <<>> /\ command[Len(command)] = LF
                       THEN Len(command) ELSE Len(command) + 1

NoControlInside(command) ==
    \A k \in 1..Len(StripWs(command)) : StripWs(command)[k] \notin {TAB, BS, LF, CR}

IsBlank(b) == \A k \in 1..Len(b) : IsSpace(b[k])

\* C15: Enter submits the trimmed buffer.  On Enter or Return exactly one
\* command-submitted event is emitted, carrying the CommandBuffer without the
\* whitespace at its ends, when that is not empty, and none when it is; the
\* CommandBuffer is empty afterwards.  The tab's command history is at every
\* moment the sequence of the events emitted so far, in order: every operation
\* leaves what it held in place and appends what was emitted.
EnterSubmits ==
    /\ command_history = emitted
    /\ IsPrefix(prev_emitted, emitted)
    /\ last_op.op \in {"Return", "Enter"} =>
            /\ input_buffer = <<>>
            /\ IF IsBlank(prev_buffer) THEN NewlyEmitted = <<>>
               ELSE Len(NewlyEmitted) = 1 /\ IsTrimOf(NewlyEmitted[1], prev_buffer)

EnterSubmitsWitness ==
    /\ last_op.op = "Return"
    /\ prev_buffer = <<SP, "l", SP>>
    /\ input_buffer = <<>>
    /\ command_history = <<<<"l">>, <<"l">>>>

\* the reported paths that exist and are directories, with the process in
\* /tmp, each with its absolute path
ExistingReports ==
    {<<<<"/", "t", "m", "p">>, <<"/", "t", "m", "p">>>>,
     <<<<"/", "t", "m", "p", "/", "x">>, <<"/", "t", "m", "p", "/", "x">>>>,
     <<<<"x">>, <<"/", "t", "m", "p", "/", "x">>>>}

\* the reported path d exists and is a directory
Exists(d) == \E e \in ExistingReports : e[1] = d

\* the navigation state of the tab
NavState == <<events, history, history_index, current_directory>>

\* C16: only valid reports raise events.  Every directory-change event carries
\* a path that exists and is a directory; and a fragment none of whose
\* reports names an existing directory raises no event and leaves the current
\* directory, the navigation history and the history index as they were.
ValidReportsOnly ==
    /\ [](\A k \in 1..Len(events) : \E e \in ExistingReports : e[2] = events[k])
    /\ [][(\A k \in 1..Len(ExtractDirectories(lastText')) :
                ~Exists(ExtractDirectories(lastText')[k]))
           => NavState' = NavState]_vars
    /\ [][Len(events') - Len(events)
            <= Cardinality({k \in 1..Len(ExtractDirectories(lastText')) :
                                Exists(ExtractDirectories(lastText')[k])})]_vars

ValidReportsWitness ==
    /\ nfrag = 2
    /\ consumed = ReportStream3
    /\ lastText = OSC_DIR_PREFIX \o <<"/", "x", BEL>>
    /\ events = <<Cwd, <<"/", "t", "m", "p", "/", "x">>>>
    /\ history = <<Cwd, <<"/", "t", "m", "p", "/", "x">>>>
    /\ current_directory = <<"/", "t", "m", "p", "/", "x">>

\* the parameters of CSI H / f tried, each with the row and the column it
\* stands for: a missing or invalid value gives 1;1, each value is at least 1
PositionCases ==
    {<<<<>>, 1, 1>>,
     <<<<"3", ";", "5">>, 3, 5>>,
     <<<<"1", ";", "4">>, 1, 4>>,
     <<<<"2", ";", "1">>, 2, 1>>,
     <<<<"2">>, 1, 1>>,
     <<<<";">>, 1, 1>>,
     <<<<"-", "1", ";", "0">>, 1, 1>>,
     <<<<"?", ";", "2">>, 1, 1>>,
     <<<<"2", ";", " ", "2">>, 2, 2>>,
     <<<<"1", ";", "2", ";", "3">>, 1, 1>>}

\* the lines L followed by n empty lines
RECURSIVE WithEmptyLines(_, _)
WithEmptyLines(L, n) == IF n <= 0 THEN L ELSE WithEmptyLines(Append(L, <<>>), n - 1)

\* C17: cursor position.  CSI H / f with the parameters row;col appends empty
\* lines until line row exists and changes no existing line; afterwards the
\* cursor's line index is row - 1 and its column index is the smaller of
\* col - 1 and the length of that line: the cursor is never on another line.
CursorPositionSemantics ==
    \A c \in PositionCases :
        (nfrag = 1 /\ lastText \in {CSI(c[1], "H"), CSI(c[1], "f")}) =>
            /\ pos \in 0..Len(doc)
            /\ Lines(doc) = WithEmptyLines(Lines(prevDoc), c[2] - BlockCount(prevDoc))
            /\ CursorLine(doc, pos) = c[2] - 1
            /\ CursorCol(doc, pos) = Min(c[3] - 1, Len(LineOf(doc, c[2] - 1)))

\* the lines L with line n (0-based) replaced by x
WithLine(L, n, x) == [L EXCEPT ![n + 1] = x]

\* C18: erase in line.  CSI K with "" or "0" erases from the cursor to the end
\* of the current line, with "1" from the start of the line to the cursor,
\* with "2" the whole line; with every parameter the number of lines and
\* every other line are unchanged and the cursor stays on its line.
EraseInLineSemantics ==
    \A q \in EraseParams :
        (nfrag = 1 /\ lastText = CSI(q, "K")) =>
            LET n    == CursorLine(prevDoc, prevPos)
                col  == CursorCol(prevDoc, prevPos)
                old  == Lines(prevDoc)
                line == old[n + 1]
            IN  /\ pos \in 0..Len(doc)
                /\ CursorLine(doc, pos) = n
                /\ Len(Lines(doc)) = Len(old)
                /\ \A k \in 1..Len(old) : k # n + 1 => Lines(doc)[k] = old[k]
                /\ q \in {<<>>, <<"0">>} =>
                        /\ Lines(doc) = WithLine(old, n, SubSeq(line, 1, col))
                        /\ CursorCol(doc, pos) = col
                /\ q = <<"1">> =>
                        /\ Lines(doc) = WithLine(old, n, SubSeq(line, col + 1, Len(line)))
                        /\ CursorCol(doc, pos) = 0
                /\ q = <<"2">> =>
                        /\ Lines(doc) = WithLine(old, n, <<>>)
                        /\ CursorCol(doc, pos) = 0

EraseInLineWitness ==
    /\ nfrag = 1
    /\ lastText = CSI(<<>>, "K")
    /\ prevDoc = <<"a", "b", PS, "a">>
    /\ prevPos = 1
    /\ doc = <<"a", PS, "a">>
    /\ pos = 1

\* C19: line feed.  "\n" from any cursor position inserts one empty line right
\* after the current line: the current line and the lines before it keep all
\* their characters, also those to the right of the cursor, the lines after it
\* move down by one, and the cursor is at column 0 of the new line.
LineFeedSemantics ==
    (nfrag = 1 /\ lastText = <<LF>>) =>
        LET n   == CursorLine(prevDoc, prevPos)
            old == Lines(prevDoc)
            new == Lines(doc)
        IN  /\ pos \in 0..Len(doc)
            /\ Len(new) = Len(old) + 1
            /\ \A k \in 1..(n + 1) : new[k] = old[k]
            /\ new[n + 2] = <<>>
            /\ \A k \in (n + 2)..Len(old) : new[k + 1] = old[k]
            /\ CursorLine(doc, pos) = n + 1
            /\ CursorCol(doc, pos) = 0

LineFeedWitness ==
    /\ nfrag = 1
    /\ lastText = <<LF>>
    /\ prevDoc = <<"a", "b", PS, "b">>
    /\ prevPos = 1
    /\ doc = <<"a", "b", PS, PS, "b">>
    /\ pos = 3

\* the streams that end with the erase idiom
IdiomStreams == {EraseIdiomStream, EraseIdiomStream2}

\* the buffer d with the character before position p deleted, if there is one
OneDeleted(d, p) == IF p > 0 THEN RemoveRange(d, p - 1, p) ELSE d

\* C20: erase-sequence coalescing.  Wherever "\b" or DEL, a space and "\b" or
\* DEL follow one another in the stream, the three are one erase unit: after
\* them the buffer is the buffer before them with at most one character
\* deleted, the one before the cursor, and no space written.
EraseIdiomCoalesced ==
    \A s \in IdiomStreams :
        (consumed = s /\ ~raised) =>
            LET before == Render(<<>>, 0, SubSeq(s, 1, Len(s) - 3))
            IN  /\ doc = OneDeleted(before.doc, before.pos)
                /\ pos = Max(before.pos - 1, 0)

\* the buffer before the last fragment, as lines and cursor
Unchanged == doc = prevDoc /\ pos = prevPos

\* the relation between the buffer before and after what follows an
\* unrecognized sequence, were that tail written alone
TailWritten(t) ==
    IF t = <<>> THEN Unchanged
    ELSE IF t = <<LF>>
    THEN /\ Lines(doc) = InsertLine(Lines(prevDoc), CursorLine(prevDoc, prevPos) + 1, <<>>)
         /\ CursorLine(doc, pos) = CursorLine(prevDoc, prevPos) + 1
         /\ CursorCol(doc, pos) = 0
    ELSE Overwritten(prevDoc, prevPos, doc, pos, t[1])

\* C21: unrecognized sequences are no-ops.  A complete CSI sequence whose
\* command is not K, J, H or f, an ESC followed by a character other than "["
\* and "]", and a BEL leave the lines and the cursor as they were, and consume
\* exactly their own characters (CSI up to and including the first alphabetic
\* character, ESC x two characters, BEL one): what follows in the fragment is
\* interpreted as if it stood alone.
UnrecognizedAreNoOps ==
    \A q \in NoOpSequences, t \in NoOpTails :
        (nfrag = 1 /\ lastText = q \o t) =>
            /\ pos \in 0..Len(doc)
            /\ ~raised
            /\ lastI = Len(lastText)
            /\ TailWritten(t)

UnrecognizedWitness ==
    /\ nfrag = 1
    /\ lastText = <<ESC, "K", "Z">>
    /\ prevDoc = AbcDoc
    /\ prevPos = 1
    /\ doc = <<"a", "Z", "c">>
    /\ pos = 2

\* the indices at which the marker stands in text
Occurrences(text) ==
    {k \in 0..(Len(text) - Len(OSC_DIR_PREFIX)) :
        Slice(text, k, k + Len(OSC_DIR_PREFIX)) = OSC_DIR_PREFIX}

\* a terminator stands at index j of text: BEL, or ESC followed by "\"
TerminatorAt(text, j) ==
    \/ At(text, j) = BEL
    \/ At(text, j) = ESC /\ j + 1 < Len(text) /\ At(text, j + 1) = "\\"

TerminatorLength(text, j) == IF At(text, j) = BEL THEN 1 ELSE 2

\* the least element of the set S of indices, -1 when S is empty
Least(S) == IF S = {} THEN -1 ELSE CHOOSE k \in S : \A j \in S : k <= j

\* the first marker at or after index from
FirstMarker(text, from) == Least({k \in Occurrences(text) : k >= from})

\* the first terminator after the marker at k
FirstTerminator(text, k) ==
    Least({j \in (k + Len(OSC_DIR_PREFIX))..(Len(text) - 1) : TerminatorAt(text, j)})

\* the index just after the terminator of the report whose marker is at k
AfterReport(text, k) ==
    FirstTerminator(text, k) + TerminatorLength(text, FirstTerminator(text, k))

\* ds is the left-to-right scan of text whose reports have their markers at ks
ScanAt(text, ds, ks) ==
    /\ \A n \in 1..Len(ds) :
        /\ ks[n] = FirstMarker(text, IF n = 1 THEN 0 ELSE AfterReport(text, ks[n - 1]))
        /\ FirstTerminator(text, ks[n]) # -1
        /\ ds[n] = Slice(text, ks[n] + Len(OSC_DIR_PREFIX), FirstTerminator(text, ks[n]))
    /\ \E last \in {FirstMarker(text, IF ds = <<>> THEN 0
                                       ELSE AfterReport(text, ks[Len(ds)]))} :
        last = -1 \/ FirstTerminator(text, last) = -1

IsScanOf(text, ds) == \E ks \in [1..Len(ds) -> Occurrences(text)] : ScanAt(text, ds, ks)

\* C22: for one fragment the extractor returns, from left to right, the
\* payload of every occurrence of the marker ESC ]1337;CurrentDir= that is
\* followed by a terminator and does not lie inside an earlier report: the
\* payload is the text between the marker and the first BEL or ESC \ after it,
\* and the search for the next marker resumes just after that terminator.
ExtractorScans ==
    \A n \in 1..Len(scanned) :
        n <= Len(extracted) /\ IsScanOf(scanned[n], extracted[n])

ExtractorScansWitness ==
    /\ Len(scanned) = 1
    /\ scanned[1] = OSC_DIR_PREFIX \o <<"x", ESC, "\\">> \o OSC_DIR_PREFIX \o <<BEL>>
    /\ extracted[1] = <<<<"x">>, <<>>>>

\* the first marker of text with no terminator after it, -1 when every marker
\* has one
FirstUnterminated(text) ==
    Least({k \in Occurrences(text) : FirstTerminator(text, k) = -1})

\* C23: the extractor is stateless and fragment-local.  What a call returns
\* depends on its fragment only; a marker with no terminator after it in the
\* same fragment yields nothing and ends the scan, so the call returns the
\* scan of the text before that marker; and the fragment that follows is
\* scanned on its own, the report left open before it is not completed by it.
ExtractorFragmentLocal ==
    /\ Len(extracted) = Len(scanned)
    /\ \A j, k \in 1..Len(scanned) :
        scanned[j] = scanned[k] => extracted[j] = extracted[k]
    /\ \A n \in 1..Len(scanned) :
        FirstUnterminated(scanned[n]) # -1 =>
            IsScanOf(Slice(scanned[n], 0, FirstUnterminated(scanned[n])), extracted[n])
    /\ \A n \in 2..Len(scanned) :
        FirstUnterminated(scanned[n - 1]) # -1 =>
            /\ IsScanOf(scanned[n], extracted[n])
            /\ \A i \in 1..Len(extracted[n]) :
                Len(extracted[n][i]) + Len(OSC_DIR_PREFIX) < Len(scanned[n])

ExtractorFragmentLocalWitness ==
    /\ scanned = <<OSC_DIR_PREFIX \o <<"x">>, <<"x", BEL>>>>
    /\ extracted = <<<<>>, <<>>>>

\* C24: the copy-or-interrupt key.  Without a selection exactly the interrupt
\* byte 0x03 is written to the PTY, the CommandBuffer is cleared and no
\* command-submitted event is emitted; with a selection nothing is written and
\* the CommandBuffer is unchanged.
CopyOrInterrupt ==
    last_op.op = "Copy" =>
        IF last_op.sel
        THEN written = <<>> /\ input_buffer = prev_buffer
        ELSE /\ written = <<ETX>>
             /\ input_buffer = <<>>
             /\ emitted = prev_emitted
             /\ command_history = emitted

CopyOrInterruptWitness ==
    /\ last_op.op = "Copy"
    /\ ~last_op.sel
    /\ prev_buffer = <<"l", SP, "l">>
    /\ input_buffer = <<>>
    /\ written = <<ETX>>
    /\ emitted = <<>>

\* the characters that are not printable
ControlChars == {LF, CR, TAB, BS, DEL, BEL, ESC, ETX}

\* C25: in every reachable state, after any sequence of key presses, pastes
\* and programmatic writes, the CommandBuffer holds printable characters only:
\* never a control character such as the newline of a pasted text.
CommandBufferPrintable ==
    \A k \in 1..Len(input_buffer) : input_buffer[k] \notin ControlChars

\* once the reader has left its loop it stays out of it, reads nothing and
\* emits nothing: the emissions still queued can only be taken by the tab
ReaderExitIsFinal ==
    [][reader_pc = "exit" =>
            /\ reader_pc' = "exit"
            /\ produced' = produced
            /\ posted' = posted \/ (posted # <<>> /\ posted' = Tail(posted))]_vars

\* C26: once a PTY read fails the reader loop exits without retrying and
\* hands over no fragment afterwards; and after _shutdown_tab has closed the
\* master descriptor the reader thread eventually terminates, whatever its
\* running flag was when the read was issued.
ReaderTerminates ==
    /\ ReaderExitIsFinal
    /\ (~master_open ~> reader_pc = "exit")

\* the steps of a _shutdown_tab call in which the forceful signal is sent
KillPhases == <<"close", "join", "alive", "terminate", "expired", "kill">>

\* the last signal of signals' is sent in this step, and it is sig
Sends(sig) ==
    /\ Len(signals') = Len(signals) + 1
    /\ signals'[Len(signals')][3] = sig

\* the order of the phases of the last _shutdown_tab call, with the child
\* alive or not as the call's own poll and wait found it
PhasesInOrder ==
    /\ IsPrefix(phases, KillPhases)
        \/ phases = <<"close", "join", "exited">>
        \/ phases = <<"close", "join", "alive", "terminate", "exited">>
    /\ phases # <<>> => ~master_open
    /\ \A k \in 1..Len(signals) : signals[k][2] = "group"
    /\ SentToGroup("SIGTERM") => IsPrefix(SubSeq(KillPhases, 1, 4), phases)
    /\ SentToGroup("SIGKILL") => (phases = KillPhases /\ timed_out)
    /\ (Len(phases) = 5 /\ phases[5] = "exited") =>
            (~SentToGroup("SIGKILL") /\ sd_pc = "done")

\* C27 as stated: the master descriptor is closed before the reader join is
\* attempted; the graceful signal is sent to the child's process group only
\* after the join attempt and only if the child is still alive; the forceful
\* signal is sent only after the bounded wait that follows the graceful
\* signal has expired with the child still alive, never to a child that
\* exited within the wait and never without a graceful signal attempt first.
ShutdownPhasesAsStated ==
    /\ []PhasesInOrder
    /\ [][Sends("SIGTERM") => child = "alive"]_vars

\* C27: the phases of _shutdown_tab happen in a fixed order in every
\* execution.  The master descriptor is closed before the reader join is
\* attempted; the graceful signal is sent to the child's process group only
\* after the join attempt and only if the poll after it found the child
\* alive; the forceful signal only after the bounded wait that follows the
\* graceful signal attempt has expired with the child alive, never when the
\* wait returned because the child exited.
ShutdownPhases ==
    /\ []PhasesInOrder
    /\ [][Sends("SIGTERM") => (sd_pc = "terminate" /\ phases[Len(phases)] = "alive")]_vars
    /\ [][Sends("SIGKILL") => (sd_pc = "kill" /\ phases[Len(phases)] = "expired")]_vars

ShutdownPhasesWitness ==
    /\ phases = KillPhases
    /\ SentToGroup("SIGTERM")
    /\ SentToGroup("SIGKILL")
    /\ now - started = GracefulWaitMs

\* the ScreenBuffer: the lines and the interpreter's cursor
ScreenBuffer == <<Lines(doc), CursorLine(doc, pos), CursorCol(doc, pos)>>

\* the step is the tab's thread processing the fragment at the head of the
\* queued emissions
ProcessesFragment ==
    /\ posted # <<>>
    /\ posted' = Tail(posted)
    /\ delivered' = Append(delivered, Head(posted))
    /\ lastText' = Head(posted)
    /\ nfrag' = nfrag + 1

\* the step is taken by the reader thread, by _shutdown_tab, or by a key
ByOtherActor ==
    \/ reader_pc' # reader_pc
    \/ sd_pc' # sd_pc
    \/ last_op' # last_op \/ written' # written \/ input_buffer' # input_buffer

EchoOfNavigation ==
    /\ cd_queue # <<>>
    /\ Head(cd_queue).origin = "nav"
    /\ cd_queue' = Tail(cd_queue)

\* C29: a directory report that is the shell's echo of a go_back or
\* go_forward never alters the navigation history.  For every interleaving
\* of the clicks with the arrival of the reports of their cd commands the
\* history keeps all its entries, none is appended, and
\* 0 <= history_index < len(history).
EchoKeepsHistory ==
    /\ [](history_index >= 0 /\ history_index < Len(history))
    /\ [][EchoOfNavigation => history' = history]_vars

\* ---------------------------------------------------------------------------
\* send_command and the CommandBuffer

\* the events a call of send_command(command, add_newline) may add: with
\* add_newline the trimmed command when it is not blank, none otherwise
OwnEvents(command, add_newline) ==
    IF add_newline /\ ~IsBlank(command)
    THEN Len(NewlyEmitted) = 1 /\ IsTrimOf(NewlyEmitted[1], command)
    ELSE NewlyEmitted = <<>>

\* C30: send_command neither reads nor modifies the CommandBuffer: the
\* characters typed before the call are still buffered after it, the event it
\* emits holds only its own trimmed argument, and with add_newline false it
\* emits no event.
SendCommandLeavesBuffer ==
    last_op.op \in {"send_command", "send_raw"} =>
        /\ input_buffer = prev_buffer
        /\ IsPrefix(prev_emitted, emitted)
        /\ OwnEvents(last_op.arg, last_op.op = "send_command")

\* a command is sent while typed characters are pending, and is recorded
SendCommandLeavesBufferWitness ==
    /\ last_op.op = "send_command"
    /\ last_op.arg = <<SP, "l", LF>>
    /\ prev_buffer # <<>>
    /\ input_buffer = prev_buffer
    /\ NewlyEmitted = <<<<"l">>>>

====
